---- MODULE Spec2Model ----
(***************************************************************************)
(* A model of the nexus finite-state-machine engine (fsm.go).              *)
(*                                                                         *)
(* The machine is the FSM struct: currentState, the States registry with   *)
(* its maxSize, the transitions slice, errorState and errorHandler, all    *)
(* behind one sync.RWMutex.                                                *)
(*                                                                         *)
(* Spec is the machine driven by one caller, one action per exported       *)
(* method, each the whole method from its Lock to its deferred Unlock.     *)
(* SpecConc is the machine driven by several callers, a method being the   *)
(* taking of its lock, its body and its return, and Trigger one step per   *)
(* stage of its body.  Both use the same definitions of the bodies.        *)
(*                                                                         *)
(* A payload (a pointer to T) is modelled by the sequence of the functions *)
(* that have produced it: every action function and the error handler      *)
(* return a new payload, their input with their own name appended, so that *)
(* the order of a chain and the identity of a returned payload are         *)
(* visible.  A caller waiting for the lock is idle: it is inside a method  *)
(* from the step that takes the lock to the step that returns.             *)
(***************************************************************************)
EXTENDS Integers, Sequences, FiniteSets, TLC

VARIABLES
    currentState,   \* FSM.currentState
    states,         \* FSM.states.stateMap (its key set)
    maxStates,      \* FSM.states.maxSize
    transitions,    \* FSM.transitions
    errorState,     \* FSM.errorState
    errorHandler,   \* FSM.errorHandler
    ret,            \* what the last call returned, and what it invoked
    mu,             \* FSM.mu: the writer holding it and the readers holding it
    pc,             \* per caller: where it is in the method it called
    frame           \* per caller: the arguments and locals of that method

machine == <<currentState, states, maxStates, transitions, errorState, errorHandler>>
callers == <<mu, pc, frame>>
vars == <<currentState, states, maxStates, transitions, errorState, errorHandler, ret,
          mu, pc, frame>>

(***************************************************************************)
(* Bounds and input sets.                                                  *)
(***************************************************************************)
MaxTransitions == 2

NoState == ""
StateNames == {"a", "b", "e"}
InitialStates == {"a"}
\* the (From, Event, To) triples AddTransition is called with
Routes == { <<"a", "x", "b">>, <<"a", "x", "a">>, <<"b", "y", "a">> }
ErrorStates == {NoState, "e"}
EventNames == {"x", "y"}
MaxStatesOptions == {2}
Payloads == {<<"p">>}

(***************************************************************************)
(* Errors.  Nil is Go's nil error.                                         *)
(***************************************************************************)
Nil == [type |-> "nil"]
ErrStateAlreadyExists == [type |-> "sentinel", msg |-> "state already exists"]
ErrStateSizeExceeded == [type |-> "sentinel", msg |-> "maximum number of states exceeded"]
StateError(op, state, err) == [type |-> "StateError", Op |-> op, State |-> state, Err |-> err]
TransitionError(message, state, event, err) ==
    [type |-> "TransitionError", Message |-> message, State |-> state, Event |-> event, Err |-> err]
\* the error values the action functions and the error handlers of the model return
ErrOf(fn) == [type |-> "errors.New", by |-> fn]

(***************************************************************************)
(* Action functions (ActionFunc).  NilFn is the nil function value.  A     *)
(* bound function is caller code: whether a call of it returns an error is *)
(* its own business, so every Trigger draws the set of functions that fail *)
(* in it.                                                                  *)
(***************************************************************************)
NilFn == "nil"
ActionFns == {"f", "g", "k"}
Handlers == {NilFn, "h"}
\* the sets of functions that fail in one Trigger: at most one action function
\* (the loop stops at the first failure) and, or not, the handler
FailSets == { a \cup h : a \in {{}} \cup {{fn} : fn \in ActionFns},
                         h \in SUBSET (Handlers \ {NilFn}) }

\* A call of a bound function: the payload and the error it returns.
CallFn(fn, args, failing) ==
    [args |-> Append(args, fn),
     err  |-> IF fn \in failing THEN ErrOf(fn) ELSE Nil]

\* One entry of the log of invocations: the function, what it was given and
\* the error it returned.
Invoked(fn, args, failing) == [fn |-> fn, args |-> args, err |-> CallFn(fn, args, failing).err]

Action(name, fn) == [Name |-> name, Fn |-> fn]
ActionLists ==
    { <<>>,
      <<Action("first", "f"), Action("second", "g"), Action("third", "k")>>,
      <<Action("first", "f"), Action("unbound", NilFn), Action("third", "g")>> }

Transition(from, to, event, actions) ==
    [From |-> from, To |-> to, Event |-> event, Action |-> actions]

(***************************************************************************)
(* States: limitReached, Exists, Add.                                      *)
(***************************************************************************)
\* limitReached comparing with > : one state more than maxSize gets in.
limitReachedOffByOne == maxStates > 0 /\ Cardinality(states) > maxStates

\* limitReached without the test for "no limit": a maxSize of 0 is a limit of 0.
limitReachedNoUnlimited == Cardinality(states) >= maxStates

limitReached == maxStates > 0 /\ Cardinality(states) >= maxStates

Exists(state) == state \in states

\* States.Add looking at the limit before it looks for the state.
AddErrLimitFirst(state) ==
    IF limitReached THEN StateError("Add", state, ErrStateSizeExceeded)
    ELSE IF Exists(state) THEN StateError("Add", state, ErrStateAlreadyExists)
    ELSE Nil

\* the error States.Add returns
AddErr(state) ==
    IF Exists(state) THEN StateError("Add", state, ErrStateAlreadyExists)
    ELSE IF limitReached THEN StateError("Add", state, ErrStateSizeExceeded)
    ELSE Nil

\* the stateMap after States.Add
AddStates(state) == IF AddErr(state) = Nil THEN states \cup {state} ELSE states

(***************************************************************************)
(* Trigger.                                                                *)
(***************************************************************************)
\* ScanFrom without the break: the last match wins.
RECURSIVE ScanLast(_, _)
ScanLast(i, event) ==
    IF i > Len(transitions) THEN 0
    ELSE LET later == ScanLast(i + 1, event)
         IN  IF later # 0 THEN later
             ELSE IF transitions[i].From = currentState /\ transitions[i].Event = event THEN i
             ELSE 0

\* The scan of Trigger: the index of the first transition from currentState on
\* event, looking from index i on; 0 when there is none.
RECURSIVE ScanFrom(_, _)
ScanFrom(i, event) ==
    IF i > Len(transitions) THEN 0
    ELSE IF transitions[i].From = currentState /\ transitions[i].Event = event THEN i
    ELSE ScanFrom(i + 1, event)

FindTransition(event) == ScanFrom(1, event)

\* A run in progress: the payload held, the error, the functions invoked so far
\* and the current state.
Run(args, err, calls, cur) == [args |-> args, err |-> err, calls |-> calls, cur |-> cur]

\* Whether Trigger calls handleError at all.
FallbackConfigured == errorHandler # NilFn \/ errorState # NoState

\* handleError giving up when the handler fails: the error state is not entered.
handleErrorStopsOnHandlerError(r, failing) ==
    LET called == IF errorHandler # NilFn
                  THEN Append(r.calls, Invoked(errorHandler, r.args, failing))
                  ELSE r.calls
        failed == errorHandler # NilFn /\ CallFn(errorHandler, r.args, failing).err # Nil
        cur    == IF errorState # NoState /\ ~failed THEN errorState ELSE r.cur
    IN  Run(r.args, r.err, called, cur)

\* handleError without the test for an error state: the empty name is entered.
handleErrorClearsState(r, failing) ==
    LET called == IF errorHandler # NilFn
                  THEN Append(r.calls, Invoked(errorHandler, r.args, failing))
                  ELSE r.calls
    IN  Run(r.args, r.err, called, errorState)

\* handleError taking the payload the handler returns.
handleErrorTakesPayload(r, failing) ==
    LET called == IF errorHandler # NilFn
                  THEN Append(r.calls, Invoked(errorHandler, r.args, failing))
                  ELSE r.calls
        args   == IF errorHandler # NilFn
                  THEN CallFn(errorHandler, r.args, failing).args
                  ELSE r.args
        cur    == IF errorState # NoState THEN errorState ELSE r.cur
    IN  Run(args, r.err, called, cur)

\* handleError: the handler runs when there is one, its payload and its error
\* are dropped; then the error state, when there is one, becomes current.
handleError(r, failing) ==
    LET called == IF errorHandler # NilFn
                  THEN Append(r.calls, Invoked(errorHandler, r.args, failing))
                  ELSE r.calls
        cur    == IF errorState # NoState THEN errorState ELSE r.cur
    IN  Run(r.args, r.err, called, cur)

\* The failure exits asking only for a handler: an error state alone is no fallback.
FailOnlyWithHandler(r, failing) == IF errorHandler # NilFn THEN handleError(r, failing) ELSE r

\* The failure exits of Trigger.
Fail(r, failing) == IF FallbackConfigured THEN handleError(r, failing) ELSE r

\* StepAction dropping the payload the function returns (_, err = handler.Fn(ctx, args)).
StepActionDropsPayload(h, event, r, failing) ==
    IF h.Fn = NilFn
    THEN Run(r.args, TransitionError("no handler function defined", currentState, event, Nil),
             r.calls, r.cur)
    ELSE LET c == CallFn(h.Fn, r.args, failing)
         IN  Run(r.args, c.err, Append(r.calls, Invoked(h.Fn, r.args, failing)), r.cur)

\* StepAction wrapping the action's error in a TransitionError.
StepActionWraps(h, event, r, failing) ==
    IF h.Fn = NilFn
    THEN Run(r.args, TransitionError("no handler function defined", currentState, event, Nil),
             r.calls, r.cur)
    ELSE LET c == CallFn(h.Fn, r.args, failing)
             e == IF c.err = Nil THEN Nil
                  ELSE TransitionError("action failed", currentState, event, c.err)
         IN  Run(c.args, e, Append(r.calls, Invoked(h.Fn, r.args, failing)), r.cur)

\* StepAction calling a function that failed a second time.
StepActionRetries(h, event, r, failing) ==
    IF h.Fn = NilFn
    THEN Run(r.args, TransitionError("no handler function defined", currentState, event, Nil),
             r.calls, r.cur)
    ELSE LET c     == CallFn(h.Fn, r.args, failing)
             once  == Append(r.calls, Invoked(h.Fn, r.args, failing))
             again == IF c.err # Nil THEN Append(once, Invoked(h.Fn, r.args, failing)) ELSE once
         IN  Run(c.args, c.err, again, r.cur)

\* StepAction passing over an unbound function instead of failing on it.
StepActionSkipsNil(h, event, r, failing) ==
    IF h.Fn = NilFn
    THEN r
    ELSE LET c == CallFn(h.Fn, r.args, failing)
         IN  Run(c.args, c.err, Append(r.calls, Invoked(h.Fn, r.args, failing)), r.cur)

\* One turn of the action loop on handler h: an unbound function is an error,
\* a bound one is called and its payload and error are taken.
StepAction(h, event, r, failing) ==
    IF h.Fn = NilFn
    THEN Run(r.args, TransitionError("no handler function defined", currentState, event, Nil),
             r.calls, r.cur)
    ELSE LET c == CallFn(h.Fn, r.args, failing)
         IN  Run(c.args, c.err, Append(r.calls, Invoked(h.Fn, r.args, failing)), r.cur)

\* The commit that assigns nothing: the chain ran, the state stays.
CommitKeepsState(r, nextState) == Run(r.args, Nil, r.calls, r.cur)

\* The commit after the loop.
Commit(r, nextState) == Run(r.args, Nil, r.calls, nextState)

\* The loop with the commit moved before it: a failure leaves the target state.
RECURSIVE RunActionsCommitFirst(_, _, _, _, _, _)
RunActionsCommitFirst(handlers, i, event, nextState, r, failing) ==
    IF i > Len(handlers) THEN Commit(r, nextState)
    ELSE LET s == StepAction(handlers[i], event, r, failing)
         IN  IF s.err # Nil THEN Fail(Run(s.args, s.err, s.calls, nextState), failing)
             ELSE RunActionsCommitFirst(handlers, i + 1, event, nextState, s, failing)

\* The action loop from handler i on, and the commit after it.
RECURSIVE RunActions(_, _, _, _, _, _)
RunActions(handlers, i, event, nextState, r, failing) ==
    IF i > Len(handlers) THEN Commit(r, nextState)
    ELSE LET s == StepAction(handlers[i], event, r, failing)
         IN  IF s.err # Nil THEN Fail(s, failing)
             ELSE RunActions(handlers, i + 1, event, nextState, s, failing)

\* NotFound built after the fallback: it names the error state, not the state of the call.
NotFoundAfterFallback(event, args) ==
    Run(args,
        TransitionError("no transition found",
                        IF errorState # NoState THEN errorState ELSE currentState, event, Nil),
        <<>>, currentState)

\* The error of the scan that finds nothing.
NotFound(event, args) ==
    Run(args, TransitionError("no transition found", currentState, event, Nil), <<>>, currentState)

\* Trigger with nextState declared again inside the match: the commit assigns
\* the outer one, which is still empty.
TriggerRunShadowed(event, args, failing) ==
    LET k == FindTransition(event)
    IN  IF k = 0
        THEN Fail(NotFound(event, args), failing)
        ELSE RunActions(transitions[k].Action, 1, event, NoState,
                        Run(args, Nil, <<>>, currentState), failing)

\* Trigger as a whole: what it returns, what it invoked, the state it leaves.
TriggerRun(event, args, failing) ==
    LET k == FindTransition(event)
    IN  IF k = 0
        THEN Fail(NotFound(event, args), failing)
        ELSE RunActions(transitions[k].Action, 1, event, transitions[k].To,
                        Run(args, Nil, <<>>, currentState), failing)

(***************************************************************************)
(* The lock (sync.RWMutex) and the callers.                                *)
(***************************************************************************)
Threads == {"t1", "t2"}
NoThread == "none"
Unlocked == [writer |-> NoThread, readers |-> {}]
NoFrame == [op |-> "none"]

(***************************************************************************)
(* What a call leaves in ret.                                              *)
(***************************************************************************)
NoCall == [op |-> "none"]

(***************************************************************************)
(* The operations, one caller.                                             *)
(***************************************************************************)
Init ==
    /\ currentState \in InitialStates
    /\ states = {currentState}
    /\ maxStates \in MaxStatesOptions
    /\ transitions = <<>>
    /\ errorState = NoState
    /\ errorHandler = NilFn
    /\ ret = NoCall
    /\ mu = Unlocked
    /\ pc = [t \in Threads |-> "idle"]
    /\ frame = [t \in Threads |-> NoFrame]

\* The bodies of the methods, between Lock and Unlock.
RegisterState(state) ==
    /\ states' = AddStates(state)
    /\ ret' = [op |-> "RegisterState", state |-> state, err |-> AddErr(state)]
    /\ UNCHANGED <<currentState, maxStates, transitions, errorState, errorHandler>>

\* AddTransition putting the record at the head of the table.
AddTransitionPrepends(from, to, event, actions) ==
    /\ Len(transitions) < MaxTransitions
    /\ transitions' = <<Transition(from, to, event, actions)>> \o transitions
    /\ ret' = [op |-> "AddTransition", transition |-> Transition(from, to, event, actions)]
    /\ UNCHANGED <<currentState, states, maxStates, errorState, errorHandler>>

AddTransition(from, to, event, actions) ==
    /\ Len(transitions) < MaxTransitions
    /\ transitions' = Append(transitions, Transition(from, to, event, actions))
    /\ ret' = [op |-> "AddTransition", transition |-> Transition(from, to, event, actions)]
    /\ UNCHANGED <<currentState, states, maxStates, errorState, errorHandler>>

\* what Trigger returns, with what it was called on and what it invoked
TriggerReturned(event, args, from, found, r) ==
    [op |-> "Trigger", event |-> event, in |-> args, from |-> from, found |-> found,
     args |-> r.args, err |-> r.err, calls |-> r.calls]

Trigger(event, args, failing) ==
    LET r == TriggerRun(event, args, failing)
    IN  /\ currentState' = r.cur
        /\ ret' = TriggerReturned(event, args, currentState, FindTransition(event), r)
        /\ UNCHANGED <<states, maxStates, transitions, errorState, errorHandler>>

GetState ==
    /\ ret' = [op |-> "GetState", state |-> currentState]
    /\ UNCHANGED machine

\* SetState refusing a state that is not registered.
SetStateValidates(s) ==
    /\ currentState' = IF Exists(s) THEN s ELSE currentState
    /\ ret' = [op |-> "SetState", state |-> s]
    /\ UNCHANGED <<states, maxStates, transitions, errorState, errorHandler>>

SetState(s) ==
    /\ currentState' = s
    /\ ret' = [op |-> "SetState", state |-> s]
    /\ UNCHANGED <<states, maxStates, transitions, errorState, errorHandler>>

\* SetErrorHandler that only adds: an empty state or a nil handler keeps the
\* one installed before.
SetErrorHandlerAdditive(es, handler) ==
    /\ errorState' = IF es # NoState THEN es ELSE errorState
    /\ errorHandler' = IF handler # NilFn THEN handler ELSE errorHandler
    /\ ret' = [op |-> "SetErrorHandler", errorState |-> es, handler |-> handler]
    /\ UNCHANGED <<currentState, states, maxStates, transitions>>

SetErrorHandler(es, handler) ==
    /\ errorState' = es
    /\ errorHandler' = handler
    /\ ret' = [op |-> "SetErrorHandler", errorState |-> es, handler |-> handler]
    /\ UNCHANGED <<currentState, states, maxStates, transitions>>

(***************************************************************************)
(* Spec: one caller.  Each method runs from its Lock to its Unlock in one  *)
(* step, so the lock is free before and after it.                          *)
(***************************************************************************)
CallRegisterState(state) == RegisterState(state) /\ UNCHANGED callers
CallAddTransition(from, to, event, actions) ==
    AddTransition(from, to, event, actions) /\ UNCHANGED callers
CallTrigger(event, args, failing) == Trigger(event, args, failing) /\ UNCHANGED callers
CallGetState == GetState /\ UNCHANGED callers
CallSetState(s) == SetState(s) /\ UNCHANGED callers
CallSetErrorHandler(es, handler) == SetErrorHandler(es, handler) /\ UNCHANGED callers

Next ==
    \/ \E s \in StateNames : CallRegisterState(s)
    \/ \E r \in Routes, actions \in ActionLists : CallAddTransition(r[1], r[3], r[2], actions)
    \/ \E event \in EventNames, args \in Payloads, failing \in FailSets :
          CallTrigger(event, args, failing)
    \/ CallGetState
    \/ \E s \in StateNames : CallSetState(s)
    \/ \E es \in ErrorStates, handler \in Handlers : CallSetErrorHandler(es, handler)

Spec == Init /\ [][Next]_vars

(***************************************************************************)
(* SpecNew: the construction, then one caller.  New builds the struct      *)
(* (NewAlloc) and then registers the initial state, panicking when that    *)
(* fails (NewRegister); a machine exists once New has returned.            *)
(***************************************************************************)
\* the arguments of New, and of the calls that follow it
NewNames == {NoState, "a", "b"}
NewMaxStates == {-1, 0, 1, 2, 3}
RegNames == {"a", "b", "c"}
NewRoutes == { <<"a", "x", "b">>, <<"b", "x", "c">> }
NewActionLists == { <<Action("first", "f")>> }
NewFallbacks == { <<NoState, NilFn>>, <<"e", "h">> }

\* before New: the zero values
InitBlank ==
    /\ currentState = NoState
    /\ states = {}
    /\ maxStates = 0
    /\ transitions = <<>>
    /\ errorState = NoState
    /\ errorHandler = NilFn
    /\ ret = NoCall
    /\ mu = Unlocked
    /\ pc = [t \in Threads |-> "idle"]
    /\ frame = [t \in Threads |-> NoFrame]

\* New, the struct literal
NewAlloc(initialState, max) ==
    /\ ret = NoCall
    /\ currentState' = initialState
    /\ maxStates' = max
    /\ states' = {}
    /\ transitions' = <<>>
    /\ ret' = [op |-> "New:alloc", initialState |-> initialState, maxStates |-> max]
    /\ UNCHANGED <<errorState, errorHandler, callers>>

\* New, the registration of the initial state and the return
NewRegister ==
    /\ ret.op = "New:alloc"
    /\ states' = AddStates(ret.initialState)
    /\ ret' = [op |-> "New", initialState |-> ret.initialState, maxStates |-> ret.maxStates,
               panic |-> AddErr(ret.initialState) # Nil]
    /\ UNCHANGED <<currentState, maxStates, transitions, errorState, errorHandler, callers>>

\* New has returned a machine
Constructed == ret.op \notin {"none", "New:alloc"} /\ ~(ret.op = "New" /\ ret.panic)

NextNew ==
    \/ \E initialState \in NewNames, max \in NewMaxStates : NewAlloc(initialState, max)
    \/ NewRegister
    \/ Constructed /\ \E state \in RegNames : CallRegisterState(state)
    \/ Constructed /\ \E r \in NewRoutes, actions \in NewActionLists :
          CallAddTransition(r[1], r[3], r[2], actions)
    \/ Constructed /\ \E failing \in {{}, {"f"}} : CallTrigger("x", <<"p">>, failing)
    \/ Constructed /\ \E fb \in NewFallbacks : CallSetErrorHandler(fb[1], fb[2])

SpecNew == InitBlank /\ [][NextNew]_vars

(***************************************************************************)
(* SpecScenario: the example program.  A machine that starts in idle, the  *)
(* calls main makes on it, in any order and any number of times, and the   *)
(* payload main holds, which every Trigger takes and gives back.           *)
(***************************************************************************)
Main == "t1"
ScenarioStates == {"processing", "done"}
processAction == Action("process_request", "f")
ToProcessing == Transition("idle", "processing", "start", <<processAction>>)
ToDone == Transition("processing", "done", "complete", <<>>)
ScenarioTransitions == {ToProcessing, ToDone}
ScenarioEvents == {"start", "complete"}
ScenarioPayload == <<"test">>

InitScenario ==
    /\ currentState = "idle"
    /\ states = {"idle"}
    /\ maxStates = 0
    /\ transitions = <<>>
    /\ errorState = NoState
    /\ errorHandler = NilFn
    /\ ret = NoCall
    /\ mu = Unlocked
    /\ pc = [t \in Threads |-> "idle"]
    /\ frame = [t \in Threads |-> IF t = Main THEN [op |-> "main", req |-> ScenarioPayload]
                                             ELSE NoFrame]

\* req, err = machine.Trigger(ctx, event, req); processAction never fails
MainTrigger(event) ==
    /\ Trigger(event, frame[Main].req, {})
    /\ frame' = [frame EXCEPT ![Main] = [op |-> "main", req |-> ret'.args]]
    /\ UNCHANGED <<mu, pc>>

NextScenario ==
    \/ \E state \in ScenarioStates : CallRegisterState(state)
    \/ \E tr \in ScenarioTransitions : CallAddTransition(tr.From, tr.To, tr.Event, tr.Action)
    \/ \E event \in ScenarioEvents : MainTrigger(event)
    \/ CallGetState

SpecScenario == InitScenario /\ [][NextScenario]_vars

(***************************************************************************)
(* SpecRegistered: one caller that never calls SetState and adds only      *)
(* transitions whose To state is registered.  No limit on the registry.    *)
(***************************************************************************)
InitRegistered ==
    /\ currentState \in InitialStates
    /\ states = {currentState}
    /\ maxStates = 0
    /\ transitions = <<>>
    /\ errorState = NoState
    /\ errorHandler = NilFn
    /\ ret = NoCall
    /\ mu = Unlocked
    /\ pc = [t \in Threads |-> "idle"]
    /\ frame = [t \in Threads |-> NoFrame]

\* the caller's discipline: the To state has been registered
AddRegisteredTransition(from, to, event, actions) ==
    /\ Exists(to)
    /\ CallAddTransition(from, to, event, actions)

NextRegistered ==
    \/ \E state \in StateNames : CallRegisterState(state)
    \/ \E r \in Routes, actions \in ActionLists :
          AddRegisteredTransition(r[1], r[3], r[2], actions)
    \/ \E event \in EventNames, args \in Payloads, failing \in FailSets :
          CallTrigger(event, args, failing)
    \/ \E es \in ErrorStates, handler \in Handlers : CallSetErrorHandler(es, handler)

SpecRegistered == InitRegistered /\ [][NextRegistered]_vars

(***************************************************************************)
(* SpecFallback: one caller that installs one fallback after another, out  *)
(* of two handlers and two error states, and triggers.  No SetState, and   *)
(* no transition into an error state.                                      *)
(***************************************************************************)
FallbackHandlers == {NilFn, "h", "h2"}
FallbackStates == {NoState, "e", "b"}
FallbackRoutes == { <<"a", "x", "a">> }
FallbackActionLists == { <<Action("first", "f")>> }
FallbackFailSets == { {}, {"f"}, {"h"}, {"f", "h"} }

NextFallback ==
    \/ \E r \in FallbackRoutes, actions \in FallbackActionLists :
          CallAddTransition(r[1], r[3], r[2], actions)
    \/ \E event \in EventNames, args \in Payloads, failing \in FallbackFailSets :
          CallTrigger(event, args, failing)
    \/ \E es \in FallbackStates, handler \in FallbackHandlers : CallSetErrorHandler(es, handler)

SpecFallback == Init /\ [][NextFallback]_vars

(***************************************************************************)
(* SpecConc: several callers.  A caller takes the lock its method takes,   *)
(* runs the body, and gives the lock back when the method returns (the     *)
(* deferred Unlock).  Trigger is taken apart into the scan, one step per   *)
(* turn of the action loop, the commit or the failure exit, and the        *)
(* return.                                                                 *)
(***************************************************************************)
\* A mutex that lets the caller that holds it take it again.
LockReentrant(t) ==
    /\ mu.writer \in {NoThread, t}
    /\ mu.readers = {}
    /\ mu' = [mu EXCEPT !.writer = t]

Lock(t) ==
    /\ mu.writer = NoThread
    /\ mu.readers = {}
    /\ mu' = [mu EXCEPT !.writer = t]

Unlock(t) == mu' = [mu EXCEPT !.writer = NoThread]

RLock(t) ==
    /\ mu.writer = NoThread
    /\ mu' = [mu EXCEPT !.readers = @ \cup {t}]

RUnlock(t) == mu' = [mu EXCEPT !.readers = @ \ {t}]

\* caller t goes to position p of its method with locals f
Goto(t, p, f) ==
    /\ pc' = [pc EXCEPT ![t] = p]
    /\ frame' = [frame EXCEPT ![t] = f]

Return(t) == Goto(t, "idle", NoFrame)

RegisterStateLock(t, state) ==
    /\ pc[t] = "idle"
    /\ Lock(t)
    /\ Goto(t, "RegisterState", [op |-> "RegisterState", state |-> state])
    /\ UNCHANGED <<machine, ret>>

RegisterStateReturn(t) ==
    /\ pc[t] = "RegisterState"
    /\ RegisterState(frame[t].state)
    /\ Unlock(t)
    /\ Return(t)

AddTransitionLock(t, from, to, event, actions) ==
    /\ pc[t] = "idle"
    /\ Len(transitions) < MaxTransitions
    /\ Lock(t)
    /\ Goto(t, "AddTransition",
            [op |-> "AddTransition", transition |-> Transition(from, to, event, actions)])
    /\ UNCHANGED <<machine, ret>>

AddTransitionReturn(t) ==
    /\ pc[t] = "AddTransition"
    /\ LET tr == frame[t].transition
       IN  AddTransition(tr.From, tr.To, tr.Event, tr.Action)
    /\ Unlock(t)
    /\ Return(t)

\* SetState without the lock.
SetStateNoLock(t, s) ==
    /\ pc[t] = "idle"
    /\ Goto(t, "SetState", [op |-> "SetState", state |-> s])
    /\ UNCHANGED <<machine, ret, mu>>

SetStateLock(t, s) ==
    /\ pc[t] = "idle"
    /\ Lock(t)
    /\ Goto(t, "SetState", [op |-> "SetState", state |-> s])
    /\ UNCHANGED <<machine, ret>>

SetStateReturn(t) ==
    /\ pc[t] = "SetState"
    /\ SetState(frame[t].state)
    /\ Unlock(t)
    /\ Return(t)

SetErrorHandlerLock(t, es, handler) ==
    /\ pc[t] = "idle"
    /\ Lock(t)
    /\ Goto(t, "SetErrorHandler",
            [op |-> "SetErrorHandler", errorState |-> es, handler |-> handler])
    /\ UNCHANGED <<machine, ret>>

SetErrorHandlerReturn(t) ==
    /\ pc[t] = "SetErrorHandler"
    /\ SetErrorHandler(frame[t].errorState, frame[t].handler)
    /\ Unlock(t)
    /\ Return(t)

GetStateRLock(t) ==
    /\ pc[t] = "idle"
    /\ RLock(t)
    /\ Goto(t, "GetState", [op |-> "GetState"])
    /\ UNCHANGED <<machine, ret>>

GetStateReturn(t) ==
    /\ pc[t] = "GetState"
    /\ GetState
    /\ RUnlock(t)
    /\ Return(t)

\* Trigger taking the read lock.
TriggerRLock(t, event, args) ==
    /\ pc[t] = "idle"
    /\ RLock(t)
    /\ Goto(t, "Trigger:scan",
            [op |-> "Trigger", event |-> event, in |-> args, from |-> NoState, found |-> 0,
             nextState |-> NoState, handlers |-> <<>>, i |-> 0,
             r |-> Run(args, Nil, <<>>, NoState)])
    /\ UNCHANGED <<machine, ret>>

TriggerLock(t, event, args) ==
    /\ pc[t] = "idle"
    /\ Lock(t)
    /\ Goto(t, "Trigger:scan",
            [op |-> "Trigger", event |-> event, in |-> args, from |-> NoState, found |-> 0,
             nextState |-> NoState, handlers |-> <<>>, i |-> 0,
             r |-> Run(args, Nil, <<>>, NoState)])
    /\ UNCHANGED <<machine, ret>>

\* the scan; the state it looks the transition up from is kept in from
TriggerScan(t) ==
    /\ pc[t] = "Trigger:scan"
    /\ LET f == frame[t]
           k == FindTransition(f.event)
       IN  IF k = 0
           THEN Goto(t, "Trigger:fail",
                     [f EXCEPT !.from = currentState, !.r = NotFound(f.event, f.in)])
           ELSE Goto(t, "Trigger:loop",
                     [f EXCEPT !.from = currentState, !.found = k, !.i = 1,
                               !.nextState = transitions[k].To,
                               !.handlers = transitions[k].Action,
                               !.r = Run(f.in, Nil, <<>>, currentState)])
    /\ UNCHANGED <<machine, ret, mu>>

\* one turn of the loop
TriggerAction(t, failing) ==
    /\ pc[t] = "Trigger:loop"
    /\ frame[t].i <= Len(frame[t].handlers)
    /\ LET f == frame[t]
           s == StepAction(f.handlers[f.i], f.event, f.r, failing)
       IN  IF s.err # Nil
           THEN Goto(t, "Trigger:fail", [f EXCEPT !.r = s])
           ELSE Goto(t, "Trigger:loop", [f EXCEPT !.r = s, !.i = @ + 1])
    /\ UNCHANGED <<machine, ret, mu>>

\* the loop is over: commit
TriggerCommit(t) ==
    /\ pc[t] = "Trigger:loop"
    /\ frame[t].i > Len(frame[t].handlers)
    /\ LET f == frame[t]
           r == Commit(f.r, f.nextState)
       IN  /\ currentState' = r.cur
           /\ Goto(t, "Trigger:return", [f EXCEPT !.r = r])
    /\ UNCHANGED <<states, maxStates, transitions, errorState, errorHandler, ret, mu>>

\* a failure exit: the fallback, when one is configured
TriggerFail(t, failing) ==
    /\ pc[t] = "Trigger:fail"
    /\ LET f == frame[t]
           r == Fail([f.r EXCEPT !.cur = currentState], failing)
       IN  /\ currentState' = r.cur
           /\ Goto(t, "Trigger:return", [f EXCEPT !.r = r])
    /\ UNCHANGED <<states, maxStates, transitions, errorState, errorHandler, ret, mu>>

\* Trigger unlocking by hand on the success path only, with no deferred Unlock.
TriggerReturnKeepsLockOnError(t) ==
    /\ pc[t] = "Trigger:return"
    /\ LET f == frame[t]
       IN  /\ ret' = TriggerReturned(f.event, f.in, f.from, f.found, f.r)
           /\ IF f.r.err = Nil THEN Unlock(t) ELSE UNCHANGED mu
    /\ Return(t)
    /\ UNCHANGED machine

TriggerReturn(t) ==
    /\ pc[t] = "Trigger:return"
    /\ LET f == frame[t]
       IN  ret' = TriggerReturned(f.event, f.in, f.from, f.found, f.r)
    /\ Unlock(t)
    /\ Return(t)
    /\ UNCHANGED machine

\* the inputs of the concurrent callers
ConcStates == {"a", "b"}
ConcRoutes == { <<"a", "x", "b">>, <<"a", "x", "a">> }
ConcActionLists ==
    { <<Action("first", "f"), Action("second", "g")>>,
      <<Action("first", "f"), Action("unbound", NilFn)>> }
ConcEvents == {"x"}

NextConc ==
    \E t \in Threads :
        \/ \E s \in ConcStates : RegisterStateLock(t, s)
        \/ RegisterStateReturn(t)
        \/ \E r \in ConcRoutes, actions \in ConcActionLists :
              AddTransitionLock(t, r[1], r[3], r[2], actions)
        \/ AddTransitionReturn(t)
        \/ \E s \in ConcStates : SetStateLock(t, s)
        \/ SetStateReturn(t)
        \/ \E es \in ErrorStates, handler \in Handlers : SetErrorHandlerLock(t, es, handler)
        \/ SetErrorHandlerReturn(t)
        \/ GetStateRLock(t)
        \/ GetStateReturn(t)
        \/ \E event \in ConcEvents, args \in Payloads : TriggerLock(t, event, args)
        \/ TriggerScan(t)
        \/ \E failing \in FailSets : TriggerAction(t, failing)
        \/ TriggerCommit(t)
        \/ \E failing \in FailSets : TriggerFail(t, failing)
        \/ TriggerReturn(t)

SpecConc == Init /\ [][NextConc]_vars

(***************************************************************************)
(* SpecLive: several callers under a fair scheduler.  A call first blocks  *)
(* on the lock (Call), gets it when it is free (Enter), and then runs the  *)
(* steps of SpecConc.  Actions and handlers return: a turn of the loop and *)
(* the failure exit are steps that are always possible.                    *)
(***************************************************************************)
LiveStates == {"b"}
LiveRoutes == { <<"a", "x", "a">> }
LiveActionLists == { <<Action("first", "f")>> }
LiveFallbacks == { <<"e", "h">> }
LiveFailSets == { {}, {"f"} }

\* the locals Trigger starts with
TriggerFrame(event, args) ==
    [op |-> "Trigger", event |-> event, in |-> args, from |-> NoState, found |-> 0,
     nextState |-> NoState, handlers |-> <<>>, i |-> 0, r |-> Run(args, Nil, <<>>, NoState)]

\* the calls a caller makes
LiveCalls ==
    [op : {"RegisterState"}, state : LiveStates]
    \cup { [op |-> "AddTransition", transition |-> Transition(r[1], r[3], r[2], actions)] :
             r \in LiveRoutes, actions \in LiveActionLists }
    \cup [op : {"SetState"}, state : LiveStates]
    \cup { [op |-> "SetErrorHandler", errorState |-> fb[1], handler |-> fb[2]] :
             fb \in LiveFallbacks }
    \cup { [op |-> "GetState"] }
    \cup { TriggerFrame(event, args) : event \in ConcEvents, args \in Payloads }

\* the callers that are adding a transition
Adding == { t \in Threads : frame[t].op = "AddTransition" }

\* caller t calls a method and blocks on f.mu
Call(t, f) ==
    /\ pc[t] = "idle"
    /\ f.op = "AddTransition" => Len(transitions) + Cardinality(Adding) < MaxTransitions
    /\ Goto(t, "blocked", f)
    /\ UNCHANGED <<machine, ret, mu>>

\* f.mu.Lock(), or f.mu.RLock() in GetState, returns
Enter(t) ==
    /\ pc[t] = "blocked"
    /\ IF frame[t].op = "GetState" THEN RLock(t) ELSE Lock(t)
    /\ pc' = [pc EXCEPT ![t] = IF frame[t].op = "Trigger" THEN "Trigger:scan" ELSE frame[t].op]
    /\ UNCHANGED <<machine, ret, frame>>

\* the steps of caller t inside a method
Running(t) ==
    \/ RegisterStateReturn(t)
    \/ AddTransitionReturn(t)
    \/ SetStateReturn(t)
    \/ SetErrorHandlerReturn(t)
    \/ GetStateReturn(t)
    \/ TriggerScan(t)
    \/ \E failing \in LiveFailSets : TriggerAction(t, failing)
    \/ TriggerCommit(t)
    \/ \E failing \in LiveFailSets : TriggerFail(t, failing)
    \/ TriggerReturn(t)

NextLive ==
    \E t \in Threads :
        \/ \E f \in LiveCalls : Call(t, f)
        \/ Enter(t)
        \/ Running(t)

\* the scheduler runs every caller that can run, and the mutex does not
\* starve a caller that waits for it
Fairness == \A t \in Threads : WF_vars(Running(t)) /\ SF_vars(Enter(t))

SpecLive == Init /\ [][NextLive]_vars /\ Fairness

(***************************************************************************)
(* SpecReentrant: SpecLive's callers with actions and handlers that may    *)
(* call a method of the machine they run in.  The call is made by the      *)
(* caller that is inside Trigger, at the point where Trigger has called    *)
(* the function, with the lock held.                                       *)
(***************************************************************************)
\* Trigger is about to call, or is inside, the function of the next action
InAction(t) ==
    /\ pc[t] = "Trigger:loop"
    /\ frame[t].i <= Len(frame[t].handlers)
    /\ frame[t].handlers[frame[t].i].Fn # NilFn

\* handleError is about to call, or is inside, the error handler
InHandler(t) ==
    /\ pc[t] = "Trigger:fail"
    /\ FallbackConfigured
    /\ errorHandler # NilFn

\* the locals of the inner call f, on top of those of the Trigger that waits
\* for the function to return
Nested(f, t) ==
    [x \in DOMAIN f \cup {"outer", "at"} |->
        IF x = "outer" THEN frame[t] ELSE IF x = "at" THEN pc[t] ELSE f[x]]

\* the function called by Trigger calls a method of the same machine
Reenter(t, f) ==
    /\ InAction(t) \/ InHandler(t)
    /\ f.op = "AddTransition" => Len(transitions) + Cardinality(Adding) < MaxTransitions
    /\ Goto(t, "blocked", Nested(f, t))
    /\ UNCHANGED <<machine, ret, mu>>

NextReentrant ==
    \/ NextLive
    \/ \E t \in Threads, f \in LiveCalls : Reenter(t, f)

SpecReentrant == Init /\ [][NextReentrant]_vars

(***************************************************************************)
(* Properties.  After a Trigger, ret holds what it was called with (event, *)
(* in), the state it was called in (from), what it returned (args, err)    *)
(* and the functions it invoked in order (calls); the table and the        *)
(* fallback configuration are those of the call, Trigger changing neither. *)
(***************************************************************************)
AfterTrigger == ret.op = "Trigger"
Failed == ret.err # Nil

\* the transitions of the table that match (from, event), by the definition of
\* a match and not by the scan
Matches(from, event) ==
    { i \in 1..Len(transitions) : transitions[i].From = from /\ transitions[i].Event = event }
\* the one added first among them
FirstMatch(from, event) ==
    CHOOSE i \in Matches(from, event) : \A j \in Matches(from, event) : i <= j
Matched == Matches(ret.from, ret.event) # {}
MatchedTransition == transitions[FirstMatch(ret.from, ret.event)]

\* the invocations of action functions, and those of the error handler
IsActionCall(c) == c.fn \in ActionFns
IsHandlerCall(c) == c.fn \in Handlers
ActionCalls == SelectSeq(ret.calls, IsActionCall)
HandlerCalls == SelectSeq(ret.calls, IsHandlerCall)
\* the payload an invocation returned
PayloadOf(c) == Append(c.args, c.fn)

\* C1: after a Trigger the current state is the matched transition's To state
\* when it returned no error, the error state when it returned an error and an
\* error state is configured, and the state it was called in when it returned
\* an error and no error state is configured.
C1_StateAfterTrigger ==
    AfterTrigger =>
        /\ ~Failed => Matched /\ currentState = MatchedTransition.To
        /\ Failed /\ errorState # NoState => currentState = errorState
        /\ Failed /\ errorState = NoState => currentState = ret.from

\* a failing Trigger of a matched transition has moved the machine from another
\* state to the error state, with no handler configured
C1_Witness ==
    /\ AfterTrigger /\ Failed /\ Matched
    /\ errorState # NoState /\ errorHandler = NilFn
    /\ currentState = errorState /\ ret.from # errorState
    /\ MatchedTransition.To # errorState

\* C4: with several transitions for the same (From, Event), Trigger takes the
\* one added first: it invokes the functions of that one's chain, in their
\* order, and on success it commits that one's To state.
C4_FirstMatchWins ==
    AfterTrigger /\ Matched =>
        /\ ret.found = FirstMatch(ret.from, ret.event)
        /\ Len(ActionCalls) <= Len(MatchedTransition.Action)
        /\ \A j \in 1..Len(ActionCalls) : ActionCalls[j].fn = MatchedTransition.Action[j].Fn
        /\ ~Failed => currentState = MatchedTransition.To

\* the table holds two transitions for the event from the state, with different
\* targets and chains, and the Trigger succeeded
C4_Witness ==
    /\ AfterTrigger /\ ~Failed
    /\ \E i, j \in Matches(ret.from, ret.event) :
          /\ i < j
          /\ transitions[i].To # transitions[j].To
          /\ transitions[i].Action # transitions[j].Action
          /\ Len(transitions[i].Action) > 0
          /\ currentState = transitions[i].To

\* C5: with no error state configured, a Trigger whose chain fails (an action
\* returns an error or has no function), at whatever position, leaves the
\* current state as it was.
C5_FailureKeepsState ==
    AfterTrigger /\ Matched /\ Failed /\ errorState = NoState => currentState = ret.from

\* the second of three actions failed, on a transition to another state
C5_Witness ==
    /\ AfterTrigger /\ Matched /\ Failed /\ errorState = NoState
    /\ Len(MatchedTransition.Action) = 3
    /\ Len(ActionCalls) = 2 /\ ActionCalls[2].err # Nil
    /\ MatchedTransition.To # ret.from
    /\ currentState = ret.from

\* C6: with an error handler and an error state configured, after a failing
\* Trigger the handler has run and the current state is the error state,
\* whether or not the handler returned an error.
C6_FallbackPrecedence ==
    AfterTrigger /\ Failed /\ errorHandler # NilFn /\ errorState # NoState =>
        /\ Len(HandlerCalls) = 1
        /\ HandlerCalls[1].fn = errorHandler
        /\ currentState = errorState

\* the handler itself returned an error and the machine is in the error state
C6_Witness ==
    /\ AfterTrigger /\ Failed /\ errorHandler # NilFn /\ errorState # NoState
    /\ Len(HandlerCalls) = 1 /\ HandlerCalls[1].err # Nil
    /\ currentState = errorState /\ ret.from # errorState

\* C7: the chain is a fold from the left.  The functions invoked are those of
\* the matched chain in its order, the first given the caller's payload and
\* each next one the payload the one before it returned; none is invoked after
\* one that failed; a Trigger that succeeds has invoked them all, returns the
\* payload of the last one (the caller's own for an empty chain) and has
\* committed the To state; an empty chain always succeeds.
C7_ChainIsFold ==
    AfterTrigger /\ Matched =>
        LET chain == MatchedTransition.Action
            calls == ActionCalls
            n     == Len(calls)
        IN  /\ n <= Len(chain)
            /\ \A j \in 1..n :
                  /\ calls[j].fn = chain[j].Fn
                  /\ calls[j].args = IF j = 1 THEN ret.in ELSE PayloadOf(calls[j - 1])
                  /\ j < n => calls[j].err = Nil
            /\ ~Failed =>
                  /\ n = Len(chain)
                  /\ ret.args = IF n = 0 THEN ret.in ELSE PayloadOf(calls[n])
                  /\ currentState = MatchedTransition.To
            /\ chain = <<>> => ~Failed

\* three actions ran in order on the caller's payload and the Trigger returned
\* the payload of the third
C7_Witness ==
    /\ AfterTrigger /\ Matched /\ ~Failed
    /\ Len(ActionCalls) = 3
    /\ ret.in = <<"p">>
    /\ ret.args = <<"p", "f", "g", "k">>
    /\ MatchedTransition.To # ret.from

\* C8: the error Trigger returns is the original one.  When an action returned
\* an error, Trigger returns that very value; the error of the error handler
\* is never what Trigger returns.
C8_OriginalErrorWins ==
    AfterTrigger =>
        /\ \A j \in 1..Len(ActionCalls) : ActionCalls[j].err # Nil => ret.err = ActionCalls[j].err
        /\ \A j \in 1..Len(HandlerCalls) : HandlerCalls[j].err # Nil => ret.err # HandlerCalls[j].err

\* an action failed, the handler ran and failed too, and Trigger returned the
\* action's error
C8_Witness ==
    /\ AfterTrigger
    /\ Len(ActionCalls) = 2 /\ ActionCalls[2].err = ErrOf("g")
    /\ Len(HandlerCalls) = 1 /\ HandlerCalls[1].err = ErrOf("h")
    /\ ret.err = ErrOf("g")

\* C9: when no transition matches, Trigger invokes no action and returns the
\* caller's payload with a TransitionError naming the state it was called in
\* and the event, with no cause; with no fallback configured the current state
\* stays.
C9_NoTransition ==
    AfterTrigger /\ ~Matched =>
        /\ ActionCalls = <<>>
        /\ ret.args = ret.in
        /\ ret.err = TransitionError("no transition found", ret.from, ret.event, Nil)
        /\ (errorHandler = NilFn /\ errorState = NoState) => currentState = ret.from

\* no transition matched, the machine fell back to the error state, and the
\* error names the state of the call
C9_Witness ==
    /\ AfterTrigger /\ ~Matched
    /\ transitions # <<>>
    /\ errorState # NoState /\ currentState = errorState
    /\ ret.from # errorState /\ ret.err.State = ret.from

\* the first unbound function of the matched chain, 0 when all are bound
FirstUnbound(chain) ==
    IF \E i \in 1..Len(chain) : chain[i].Fn = NilFn
    THEN CHOOSE i \in 1..Len(chain) :
            chain[i].Fn = NilFn /\ \A j \in 1..(i - 1) : chain[j].Fn # NilFn
    ELSE 0
\* Trigger reached the unbound function: every action before it succeeded
ReachedUnbound ==
    /\ AfterTrigger /\ Matched
    /\ FirstUnbound(MatchedTransition.Action) # 0
    /\ \A j \in 1..Len(ActionCalls) : ActionCalls[j].err = Nil

\* C10: when Trigger comes to an action with no function, it has invoked the
\* actions before it and none after it, returns a TransitionError "no handler
\* function defined" naming the state of the call and the event, runs the
\* fallback when one is configured, and does not commit the To state.
C10_UnboundAction ==
    ReachedUnbound =>
        LET m == FirstUnbound(MatchedTransition.Action)
        IN  /\ Len(ActionCalls) = m - 1
            /\ \A j \in 1..(m - 1) : ActionCalls[j].fn = MatchedTransition.Action[j].Fn
            /\ ret.err = TransitionError("no handler function defined", ret.from, ret.event, Nil)
            /\ Len(HandlerCalls) = IF errorHandler # NilFn THEN 1 ELSE 0
            /\ currentState = IF errorState # NoState THEN errorState ELSE ret.from

\* the second action of a chain had no function: the first ran, the third did
\* not, the handler ran, and the machine is in the error state
C10_Witness ==
    /\ ReachedUnbound
    /\ FirstUnbound(MatchedTransition.Action) = 2
    /\ Len(MatchedTransition.Action) = 3
    /\ Len(ActionCalls) = 1
    /\ Len(HandlerCalls) = 1
    /\ currentState = errorState /\ ret.from # errorState

(***************************************************************************)
(* Properties of the callers (SpecConc).                                   *)
(***************************************************************************)
\* the positions inside the methods that take the write lock, and the read lock
WritePositions ==
    {"RegisterState", "AddTransition", "SetState", "SetErrorHandler",
     "Trigger:scan", "Trigger:loop", "Trigger:fail", "Trigger:return"}
ReadPositions == {"GetState"}
TriggerPositions == {"Trigger:scan", "Trigger:loop", "Trigger:fail", "Trigger:return"}
Writing == { t \in Threads : pc[t] \in WritePositions }
Reading == { t \in Threads : pc[t] \in ReadPositions }
\* between the scan and the commit or the fallback
Uncommitted(t) == pc[t] \in {"Trigger:loop", "Trigger:fail"}

\* C2: while a caller is inside Trigger no other caller is inside any method,
\* GetState included, and from the scan to the commit or the fallback the
\* current state is the state the transition was looked up from.
C2_TriggerAtomic ==
    \A t \in Threads :
        /\ pc[t] \in TriggerPositions => \A u \in Threads \ {t} : pc[u] = "idle"
        /\ Uncommitted(t) => currentState = frame[t].from

\* a Trigger is in the middle of its chain, after another caller's SetState
C2_Witness ==
    \E t \in Threads :
        /\ pc[t] = "Trigger:loop" /\ frame[t].i = 2
        /\ ret.op = "SetState"
        /\ currentState = frame[t].from

\* C3: at most one caller is inside a method that takes the write lock, and
\* none is inside GetState while one is.
C3_WritersExclude ==
    /\ Cardinality(Writing) <= 1
    /\ Writing # {} => Reading = {}

\* two callers are inside GetState at once
C3_Witness == Cardinality(Reading) = 2 /\ Writing = {}

(***************************************************************************)
(* Properties of the registry and of New (SpecNew).                        *)
(***************************************************************************)
AfterRegisterState == ret.op = "RegisterState"
CapacityError(state) == StateError("Add", state, ErrStateSizeExceeded)
ExistsError(state) == StateError("Add", state, ErrStateAlreadyExists)
\* the states that RegisterState calls have added: all but the initial state,
\* which New registers
RegisteredByCalls == Cardinality(states) - 1

\* C11 as stated: on a machine with maxStates = N > 0 a RegisterState of a new
\* state fails for capacity only once N such calls have succeeded.
C11_Original ==
    AfterRegisterState /\ ret.err = CapacityError(ret.state) => RegisteredByCalls >= maxStates

\* C11, amended: the initial state that New registers counts.  With
\* maxStates = N > 0 the registry never holds more than N states; a
\* RegisterState of a new state fails only for capacity and only when N - 1
\* calls have succeeded and the registry is full; with maxStates = 0 (or
\* less) no call fails for capacity.
C11_Capacity ==
    Constructed =>
        /\ maxStates > 0 => Cardinality(states) <= maxStates
        /\ AfterRegisterState /\ ret.state \notin states =>
              /\ ret.err = CapacityError(ret.state)
              /\ maxStates > 0
              /\ RegisteredByCalls = maxStates - 1
        /\ AfterRegisterState /\ ret.state \in states =>
              ret.err \in {Nil, ExistsError(ret.state)}
        /\ AfterRegisterState /\ maxStates <= 0 => ret.err # CapacityError(ret.state)

\* with maxStates = 3 two calls succeeded and the third, of a new state, failed
C11_Witness ==
    /\ AfterRegisterState /\ maxStates = 3
    /\ RegisteredByCalls = 2
    /\ ret.state \notin states
    /\ ret.err = CapacityError(ret.state)

\* C12: a RegisterState of a state that is already a member fails with
\* ErrStateAlreadyExists and changes nothing of the machine.
C12_Uniqueness ==
    [][ (ret'.op = "RegisterState" /\ ret'.state \in states) =>
            /\ ret'.err = ExistsError(ret'.state)
            /\ UNCHANGED machine ]_vars

\* the initial state, the only member of a registry of capacity 1, was
\* registered again
C12_Witness ==
    /\ AfterRegisterState /\ ret.err = ExistsError(ret.state)
    /\ states = {ret.state}
    /\ maxStates = 1

\* C15: New returns, for every initial state and every maxStates, a machine
\* in the initial state whose registry is that state alone, with no
\* transition and no fallback.
C15_New ==
    ret.op = "New" =>
        /\ ~ret.panic
        /\ currentState = ret.initialState
        /\ states = {ret.initialState}
        /\ maxStates = ret.maxStates
        /\ transitions = <<>>
        /\ errorState = NoState /\ errorHandler = NilFn

\* New returned a machine whose initial state is the empty name, with a limit of 1
C15_Witness ==
    /\ ret.op = "New" /\ ~ret.panic
    /\ ret.initialState = NoState /\ ret.maxStates = 1
    /\ states = {NoState}

(***************************************************************************)
(* Properties of SetState, of the failure exits and of the frame (Spec).   *)
(***************************************************************************)
\* the To states of the table
Targets == { transitions[i].To : i \in 1..Len(transitions) }

\* C13: SetState(s) makes s the current state, whatever s is, and changes
\* neither the registry nor the table nor the fallback configuration; a
\* GetState that follows it returns s.
C13_SetStateBypass ==
    [][ /\ ret'.op = "SetState" =>
              /\ currentState' = ret'.state
              /\ UNCHANGED <<states, maxStates, transitions, errorState, errorHandler>>
        /\ ret.op = "SetState" /\ ret'.op = "GetState" => ret'.state = ret.state ]_vars

\* SetState has entered a state that is not registered, that no transition
\* leads to and that is not the error state
C13_Witness ==
    /\ ret.op = "SetState" /\ currentState = ret.state
    /\ currentState \notin states \cup Targets \cup {errorState}
    /\ transitions # <<>>

\* C17 as stated: after a failed Trigger the current state is the state before
\* the call when no fallback is configured and the configured error state when
\* a handler or an error state is configured.
C17_Original ==
    AfterTrigger /\ Failed =>
        currentState = IF FallbackConfigured THEN errorState ELSE ret.from

\* C17, amended: after a failed Trigger the current state is the configured
\* error state when an error state is configured, and the state before the
\* call otherwise, with or without a handler; it is the transition's target
\* only when that is the state the rule above gives.
C17_FailureState ==
    AfterTrigger /\ Failed =>
        /\ ~FallbackConfigured => currentState = ret.from /\ HandlerCalls = <<>>
        /\ errorHandler # NilFn /\ errorState = NoState =>
              currentState = ret.from /\ Len(HandlerCalls) = 1
        /\ errorState # NoState => currentState = errorState
        /\ Matched /\ MatchedTransition.To \notin {ret.from, errorState} =>
              currentState # MatchedTransition.To

\* a matched transition failed with a handler and no error state configured:
\* the handler ran and the machine stayed in the state it was called in
C17_Witness ==
    /\ AfterTrigger /\ Failed /\ Matched
    /\ errorHandler # NilFn /\ errorState = NoState
    /\ Len(HandlerCalls) = 1
    /\ currentState = ret.from /\ MatchedTransition.To # ret.from

\* C19: the registry and the table only grow.  The registry changes only by
\* a RegisterState that returns nil and adds its state; the table only by an
\* AddTransition that appends its record; no other call changes either.
C19_OnlyGrow ==
    [][ /\ states \subseteq states'
        /\ Len(transitions') >= Len(transitions)
        /\ SubSeq(transitions', 1, Len(transitions)) = transitions
        /\ states' # states =>
              /\ ret'.op = "RegisterState" /\ ret'.err = Nil
              /\ ret'.state \notin states
              /\ states' = states \cup {ret'.state}
        /\ transitions' # transitions =>
              /\ ret'.op = "AddTransition"
              /\ transitions' = Append(transitions, ret'.transition)
        /\ ret'.op \in {"Trigger", "SetState", "SetErrorHandler", "GetState"} =>
              UNCHANGED <<states, transitions>> ]_vars

\* a second record was appended to the table of a machine with two states
C19_Witness ==
    /\ ret.op = "AddTransition"
    /\ Len(transitions) = 2 /\ transitions[2] = ret.transition
    /\ transitions[1] # transitions[2]
    /\ Cardinality(states) = 2

(***************************************************************************)
(* The example program (SpecScenario).                                     *)
(***************************************************************************)
\* the machine as main has set it up when it triggers
ScenarioReady ==
    /\ ScenarioStates \subseteq states
    /\ ScenarioTransitions \subseteq { transitions[i] : i \in 1..Len(transitions) }
    /\ ~FallbackConfigured
NoTransitionFound(state, event) == TransitionError("no transition found", state, event, Nil)

\* C14: on the machine of the example, Trigger(start) in idle returns nil and
\* enters processing after running the action, Trigger(complete) in
\* processing returns nil and enters done, Trigger(start) in done returns the
\* TransitionError of (done, start) and stays in done; the state only ever
\* moves from idle to processing and from processing to done.
C14_Scenario ==
    /\ [](AfterTrigger /\ ScenarioReady =>
            /\ ret.from = "idle" /\ ret.event = "start" =>
                  /\ ret.err = Nil /\ currentState = "processing"
                  /\ ret.args = Append(ret.in, processAction.Fn)
            /\ ret.from = "processing" /\ ret.event = "complete" =>
                  ret.err = Nil /\ currentState = "done" /\ ret.args = ret.in
            /\ ret.from = "done" /\ ret.event = "start" =>
                  /\ ret.err = NoTransitionFound("done", "start")
                  /\ currentState = "done" /\ ret.args = ret.in)
    /\ [][currentState' # currentState =>
            <<currentState, currentState'>> \in
                {<<"idle", "processing">>, <<"processing", "done">>}]_vars

\* the end of the trace: in done, holding the payload the action of start
\* returned, Trigger(start) has failed
C14_Witness ==
    /\ AfterTrigger /\ ScenarioReady
    /\ transitions = <<ToProcessing, ToDone>>
    /\ ret.from = "done" /\ ret.event = "start" /\ currentState = "done"
    /\ ret.in = Append(ScenarioPayload, processAction.Fn)
    /\ ret.err = NoTransitionFound("done", "start")
    /\ frame[Main].req = ret.in

(***************************************************************************)
(* The current state and the registry (SpecRegistered).                    *)
(***************************************************************************)
\* C16 as stated: without SetState and with every To state registered before
\* its transition is added, the current state is a member of the registry.
C16_Original == currentState \in states

\* C16, amended: the error state is one more name the caller has to register.
\* The current state is registered at the start, and from a state where it is
\* registered every call made while the configured error state is empty or
\* registered leaves it registered.
C16_CurrentRegistered ==
    /\ currentState \in states
    /\ [][ (currentState \in states /\ (errorState = NoState \/ errorState \in states)) =>
               currentState' \in states' ]_vars

\* a failing Trigger has entered the error state, which is registered, from
\* another state
C16_Witness ==
    /\ AfterTrigger /\ Failed
    /\ errorState # NoState /\ errorState \in states
    /\ currentState = errorState /\ ret.from # errorState
    /\ Targets # {} /\ Targets \subseteq states

(***************************************************************************)
(* The fallback configuration (SpecFallback).                              *)
(***************************************************************************)
\* the invocations of an error handler among calls
IsFallbackCall(c) == ~IsActionCall(c)
FallbackCallsOf(calls) == SelectSeq(calls, IsFallbackCall)

\* C18: SetErrorHandler installs exactly its two arguments, an empty state
\* and a nil handler included, and nothing else changes the configuration;
\* so a failing Trigger invokes the handler of the last SetErrorHandler only,
\* once if it is not nil, and falls back to the state of the last
\* SetErrorHandler only, staying where it is if that is empty.
C18_Replaces ==
    [][ /\ ret'.op = "SetErrorHandler" =>
              errorState' = ret'.errorState /\ errorHandler' = ret'.handler
        /\ ret'.op # "SetErrorHandler" => UNCHANGED <<errorState, errorHandler>>
        /\ (ret'.op = "Trigger" /\ ret'.err # Nil) =>
              /\ \A i \in 1..Len(FallbackCallsOf(ret'.calls)) :
                    FallbackCallsOf(ret'.calls)[i].fn = errorHandler
              /\ Len(FallbackCallsOf(ret'.calls)) = IF errorHandler = NilFn THEN 0 ELSE 1
              /\ currentState' = IF errorState # NoState THEN errorState ELSE currentState
      ]_vars

\* a machine that an earlier fallback had left in e has failed again under
\* the configuration (b, h2): h2 alone was invoked and b was entered
C18_Witness ==
    /\ AfterTrigger /\ Failed
    /\ ret.from = "e"
    /\ errorState = "b" /\ errorHandler = "h2"
    /\ currentState = "b"
    /\ Len(FallbackCallsOf(ret.calls)) = 1 /\ FallbackCallsOf(ret.calls)[1].fn = "h2"

(***************************************************************************)
(* Progress (SpecLive).                                                    *)
(***************************************************************************)
Holds(t) == mu.writer = t \/ t \in mu.readers

BoundTo(chain, fn) == Cardinality({ i \in 1..Len(chain) : chain[i].Fn = fn })
InvocationsOf(calls, fn) == Cardinality({ j \in 1..Len(calls) : calls[j].fn = fn })
\* the chain Trigger ran: that of the matched transition, none without a match
ChainRun == IF Matched THEN MatchedTransition.Action ELSE <<>>

\* C21: one Trigger invokes no function more often than the matched chain
\* holds it, and none without a match; it invokes the handler once when it
\* fails and a handler is configured and not at all otherwise; the handler is
\* the last thing it invokes, nothing is run again after the fallback.
C21_NoRetry ==
    AfterTrigger =>
        /\ \A fn \in ActionFns : InvocationsOf(ret.calls, fn) <= BoundTo(ChainRun, fn)
        /\ Len(ActionCalls) <= Len(ChainRun)
        /\ Len(HandlerCalls) = IF Failed /\ errorHandler # NilFn THEN 1 ELSE 0
        /\ ret.calls = ActionCalls \o HandlerCalls

\* the first action of a chain of three failed with a handler and an error
\* state configured: one action call, one handler call, nothing else, and the
\* machine rests in the error state
C21_Witness ==
    /\ AfterTrigger /\ Failed /\ Matched
    /\ Len(MatchedTransition.Action) = 3
    /\ Len(ActionCalls) = 1 /\ ActionCalls[1].err # Nil
    /\ Len(HandlerCalls) = 1
    /\ Len(ret.calls) = 2
    /\ currentState = errorState /\ errorState # NoState

(***************************************************************************)
(* Re-entrancy (SpecReentrant).                                            *)
(***************************************************************************)
\* caller t is inside a function called by Trigger, blocked in a call of a
\* method of the same machine
Reentered(t) == pc[t] = "blocked" /\ "outer" \in DOMAIN frame[t]

\* C22: once a function called by Trigger has called a method of the same
\* machine, the inner call stays blocked on the lock, the outer Trigger
\* stays where it is with the lock held, and every caller that is blocked on
\* the lock stays blocked.
C22_Reentrancy ==
    [][ \A t \in Threads :
            Reentered(t) =>
                /\ pc'[t] = "blocked" /\ frame'[t] = frame[t]
                /\ mu.writer = t /\ mu' = mu
                /\ \A u \in Threads : pc[u] = "blocked" => pc'[u] = "blocked" ]_vars

\* the error handler called GetState; the other caller has called a method
\* since and is blocked as well
C22_Witness ==
    \E t \in Threads, u \in Threads :
        /\ t # u
        /\ Reentered(t) /\ frame[t].at = "Trigger:fail" /\ frame[t].op = "GetState"
        /\ mu.writer = t
        /\ pc[u] = "blocked" /\ ~Reentered(u)

(***************************************************************************)
(* The payload of the error handler (Spec).                                *)
(***************************************************************************)
\* the payload Trigger holds when it fails: the caller's until an action has
\* been called, then what the last action called returned, failed or not
HeldAtFailure ==
    IF ActionCalls = <<>> THEN ret.in ELSE PayloadOf(ActionCalls[Len(ActionCalls)])

\* C23: on a failing Trigger the handler is given the payload held at the
\* failure (the caller's when nothing matched, that of the last successful
\* action before an unbound one, that which the failing action returned),
\* and Trigger returns the payload it gave to the handler, not the one the
\* handler returned.
C23_HandlerPayload ==
    AfterTrigger /\ Failed /\ errorHandler # NilFn =>
        /\ Len(HandlerCalls) = 1
        /\ HandlerCalls[1].args = HeldAtFailure
        /\ ~Matched => HandlerCalls[1].args = ret.in
        /\ ReachedUnbound /\ Len(ActionCalls) > 0 =>
              ActionCalls[Len(ActionCalls)].err = Nil
        /\ ret.args = HandlerCalls[1].args
        /\ ret.args # PayloadOf(HandlerCalls[1])

\* the second action of a chain failed: the handler was given what that action
\* returned and so was the caller
C23_Witness ==
    /\ AfterTrigger /\ Failed /\ Matched
    /\ Len(ActionCalls) = 2 /\ ActionCalls[2].err # Nil
    /\ Len(HandlerCalls) = 1
    /\ HandlerCalls[1].args = <<"p", "f", "g">>
    /\ ret.args = <<"p", "f", "g">>

====
